---- MODULE Spec2Model ----
EXTENDS Integers, Sequences, FiniteSets, TLC

(***************************************************************************)
(* A model of hprof-cat (src/src/main.rs): the HPROF stream decoder, its   *)
(* three symbol tables, the stack trace resolver and the stream driver.    *)
(*                                                                         *)
(* The file is a sequence of bytes (0..255).  It is revealed to the model  *)
(* as the reader consumes it: each step draws the bytes the reader sees    *)
(* next ("chunk") from a bounded set and runs the decoder on them.  A      *)
(* chunk shorter than the decoder needs is the end of the file.            *)
(* Text (String) is a sequence of Unicode code points; an output line is   *)
(* the text println! writes, without its newline.                          *)
(***************************************************************************)

VARIABLES
    pc,            \* "header" | "loop" | "summary" | "done" | "panicked"
    file,          \* the bytes of the file revealed so far
    eof,           \* TRUE once a read has hit the end of the file
    pos,           \* bytes delivered by completed read_exact calls
    header,        \* the Header parse_header returned
    string_table,  \* HashMap<u64, String>
    frame_table,   \* HashMap<u64, StackFrameRecord>
    class_table,   \* HashMap<u32, LoadClassRecord>
    i, j, k, l, m, \* the driver's five counters
    record,        \* the Record the last parse_record call returned
    out,           \* the lines parse_hprof_file has printed so far
    err,           \* "none", or the fatal error that aborted the run
    chunks,        \* how many chunks of the file have been revealed
    decoded        \* history: the tags of the records parse_record returned

vars == <<pc, file, eof, pos, header, string_table, frame_table, class_table,
          i, j, k, l, m, record, out, err, chunks, decoded>>

----------------------------------------------------------------------------
\* enum RecordTag (repr(u8))

Utf8String == 1
LoadClass == 2
UnloadClass == 3
StackFrame == 4
StackTrace == 5
AllocSites == 6
HeapSummary == 7
StartThread == 10
EndThread == 11
HeapDump == 12
CpuSamples == 13
ControlSettings == 14
HeapDumpSegment == 28
HeapDumpEnd == 44

RecordTag ==
    {Utf8String, LoadClass, UnloadClass, StackFrame, StackTrace, AllocSites,
     HeapSummary, StartThread, EndThread, HeapDump, CpuSamples,
     ControlSettings, HeapDumpSegment, HeapDumpEnd}

\* a driver whose match has no StackTrace arm
CountedTagsWithoutStackTrace == {Utf8String, LoadClass, UnloadClass, StackFrame}

\* the tags the driver's match counts; every other tag takes the `_ => break` arm
CountedTags == {Utf8String, LoadClass, UnloadClass, StackFrame, StackTrace}

----------------------------------------------------------------------------
\* Text literals of the format strings

TxtThread == <<84, 104, 114, 101, 97, 100, 32>>  \* "Thread "
TxtColon == <<58>>  \* ":"
TxtTab == <<9>>  \* "\t"
TxtDot == <<46>>  \* "."
TxtParenOpen == <<40, 41, 32, 91>>  \* "() ["
TxtClose == <<93>>  \* "]"
TxtUnknown == <<40, 41, 32, 91, 85, 110, 107, 110, 111, 119, 110, 93>>  \* "() [Unknown]"
TxtCompiled == <<40, 41, 32, 91, 67, 111, 109, 112, 105, 108, 101, 100, 93>>  \* "() [Compiled]"
TxtNative == <<40, 41, 32, 91, 78, 97, 116, 105, 118, 101, 93>>  \* "() [Native]"
TxtTag == <<116, 97, 103, 58, 32>>  \* "tag: "
TxtOfSize == <<32, 111, 102, 32, 115, 105, 122, 101, 32>>  \* " of size "
TxtBytes == <<32, 98, 121, 116, 101, 115>>  \* " bytes"
TxtEntries == <<101, 110, 116, 114, 105, 101, 115, 58, 32>>  \* "entries: "
TxtString == <<32, 115, 116, 114, 105, 110, 103, 32>>  \* " string "
TxtLoad == <<32, 108, 111, 97, 100, 32>>  \* " load "
TxtUnload == <<32, 117, 110, 108, 111, 97, 100, 32>>  \* " unload "
TxtFrame == <<32, 102, 114, 97, 109, 101, 32>>  \* " frame "
TxtTrace == <<32, 116, 114, 97, 99, 101>>  \* " trace"
TxtDbgOpen == <<83, 116, 97, 99, 107, 70, 114, 97, 109, 101, 82, 101, 99, 111, 114, 100, 32, 123, 32, 102, 114, 97, 109, 101, 95, 105, 100, 58, 32>>  \* "StackFrameRecord { frame_id: "
TxtDbgMethodName == <<44, 32, 109, 101, 116, 104, 111, 100, 95, 110, 97, 109, 101, 95, 105, 100, 58, 32>>  \* ", method_name_id: "
TxtDbgMethodSign == <<44, 32, 109, 101, 116, 104, 111, 100, 95, 115, 105, 103, 110, 95, 105, 100, 58, 32>>  \* ", method_sign_id: "
TxtDbgSourceName == <<44, 32, 115, 111, 117, 114, 99, 101, 95, 110, 97, 109, 101, 95, 105, 100, 58, 32>>  \* ", source_name_id: "
TxtDbgClassSerial == <<44, 32, 99, 108, 97, 115, 115, 95, 115, 101, 114, 105, 97, 108, 95, 110, 117, 109, 58, 32>>  \* ", class_serial_num: "
TxtDbgLineNum == <<44, 32, 108, 105, 110, 101, 95, 110, 117, 109, 58, 32>>  \* ", line_num: "
TxtDbgClose == <<32, 125>>  \* " }"
TxtMinus == <<45>>  \* "-"

\* #[derive(Debug)] on RecordTag: {:?} prints the variant's name
TagName(tag) ==
    CASE tag = Utf8String -> <<85, 116, 102, 56, 83, 116, 114, 105, 110, 103>>
      [] tag = LoadClass -> <<76, 111, 97, 100, 67, 108, 97, 115, 115>>
      [] tag = UnloadClass -> <<85, 110, 108, 111, 97, 100, 67, 108, 97, 115, 115>>
      [] tag = StackFrame -> <<83, 116, 97, 99, 107, 70, 114, 97, 109, 101>>
      [] tag = StackTrace -> <<83, 116, 97, 99, 107, 84, 114, 97, 99, 101>>
      [] tag = AllocSites -> <<65, 108, 108, 111, 99, 83, 105, 116, 101, 115>>
      [] tag = HeapSummary -> <<72, 101, 97, 112, 83, 117, 109, 109, 97, 114, 121>>
      [] tag = StartThread -> <<83, 116, 97, 114, 116, 84, 104, 114, 101, 97, 100>>
      [] tag = EndThread -> <<69, 110, 100, 84, 104, 114, 101, 97, 100>>
      [] tag = HeapDump -> <<72, 101, 97, 112, 68, 117, 109, 112>>
      [] tag = CpuSamples -> <<67, 112, 117, 83, 97, 109, 112, 108, 101, 115>>
      [] tag = ControlSettings -> <<67, 111, 110, 116, 114, 111, 108, 83, 101, 116, 116, 105, 110, 103, 115>>
      [] tag = HeapDumpSegment -> <<72, 101, 97, 112, 68, 117, 109, 112, 83, 101, 103, 109, 101, 110, 116>>
      [] tag = HeapDumpEnd -> <<72, 101, 97, 112, 68, 117, 109, 112, 69, 110, 100>>

\* Display / Debug of an integer: its decimal digits, "-" first when negative
RECURSIVE digits(_)
digits(n) == IF n < 10 THEN <<48 + n>> ELSE digits(n \div 10) \o <<48 + (n % 10)>>

to_string(n) == IF n < 0 THEN TxtMinus \o digits(0 - n) ELSE digits(n)

----------------------------------------------------------------------------
\* Primitive field reader

\* a read that fills what is missing with zeroes (read() into a zeroed buffer,
\* its count ignored) instead of failing
read_exact_zero_filled(buf, off, n) ==
    [ok |-> TRUE,
     bytes |-> [x \in 1..n |-> IF off + x <= Len(buf) THEN buf[off + x] ELSE 0],
     off |-> off + n]

\* `let v = value; body`: the value is computed once, the body uses it
Bind(value, body(_)) == CHOOSE result \in {body(v) : v \in {value}} : TRUE

\* reader.read_exact(&mut buf).unwrap() for a buffer of n bytes, at offset off
\* of the bytes the reader has left: the n bytes, or a failure (UnexpectedEof,
\* on which unwrap panics) when fewer than n remain.
read_exact(buf, off, n) ==
    IF off + n <= Len(buf)
    THEN [ok |-> TRUE, bytes |-> SubSeq(buf, off + 1, off + n), off |-> off + n]
    ELSE [ok |-> FALSE, bytes |-> <<>>, off |-> off]

\* consecutive read_exact calls for fields of the given widths; stops at the
\* first one that fails
RECURSIVE read_fields(_, _, _)
read_fields(buf, off, widths) ==
    IF widths = <<>>
    THEN [ok |-> TRUE, vals |-> <<>>, off |-> off]
    ELSE Bind(read_exact(buf, off, Head(widths)), LAMBDA r :
             IF ~r.ok
             THEN [ok |-> FALSE, vals |-> <<>>, off |-> off]
             ELSE Bind(read_fields(buf, r.off, Tail(widths)), LAMBDA rest :
                      [ok |-> rest.ok,
                       vals |-> IF rest.ok THEN <<r.bytes>> \o rest.vals ELSE <<>>,
                       off |-> rest.off]))

\* u32::from_be_bytes / u64::from_be_bytes: most significant byte first
RECURSIVE from_be_bytes(_)
from_be_bytes(b) ==
    IF b = <<>> THEN 0
    ELSE Bind(b, LAMBDA v : from_be_bytes(SubSeq(v, 1, Len(v) - 1)) * 256 + v[Len(v)])

\* i32::from_be_bytes: two's complement, most significant byte first
i32_from_be_bytes(b) ==
    (IF b[1] >= 128 THEN b[1] - 256 ELSE b[1]) * 16777216
        + b[2] * 65536 + b[3] * 256 + b[4]

\* a decoding that takes every byte for a character (b as char)
from_utf8_bytewise(b) == b

\* String::from_utf8_lossy(..).to_string(): one- and two-byte sequences are
\* decoded, every byte that starts no valid sequence becomes U+FFFD.  (Lead
\* bytes of three- and four-byte sequences, 0xE0 and above, are not among the
\* inputs.)
RECURSIVE from_utf8_lossy(_)
from_utf8_lossy(b) ==
    IF b = <<>> THEN <<>>
    ELSE IF b[1] < 128 THEN <<b[1]>> \o from_utf8_lossy(Tail(b))
    ELSE IF /\ b[1] >= 194 /\ b[1] <= 223 /\ Len(b) >= 2
            /\ b[2] >= 128 /\ b[2] <= 191
         THEN <<(b[1] - 192) * 64 + (b[2] - 128)>>
                  \o from_utf8_lossy(SubSeq(b, 3, Len(b)))
    ELSE <<65533>> \o from_utf8_lossy(Tail(b))

\* str::replace("/", ".")
replace_slash(s) == [n \in 1..Len(s) |-> IF s[n] = 47 THEN 46 ELSE s[n]]

\* entry(key).or_insert(v): a key that is in the table keeps its value
insert_if_absent(table, key, v) ==
    [x \in DOMAIN table \cup {key} |-> IF x \in DOMAIN table THEN table[x] ELSE v]

\* HashMap::insert: the key now maps to v, whatever it mapped to before
insert(table, key, v) ==
    [x \in DOMAIN table \cup {key} |-> IF x = key THEN v ELSE table[x]]

EmptyTable == [x \in {} |-> 0]

----------------------------------------------------------------------------
\* Header decoder

NoHeader == [format |-> <<>>, identifier_size |-> 0, high_word_ms |-> 0, low_word_ms |-> 0]

\* a header decoder that takes the timestamp for one 32-bit word
parse_header_one_word(buf) ==
    LET r == read_fields(buf, 0, <<19, 4, 4>>)
    IN  IF ~r.ok
        THEN [err |-> "TruncatedInput", off |-> r.off, header |-> NoHeader]
        ELSE [err |-> "none", off |-> r.off,
              header |-> [format |-> from_utf8_lossy(r.vals[1]),
                          identifier_size |-> from_be_bytes(r.vals[2]),
                          high_word_ms |-> from_be_bytes(r.vals[3]),
                          low_word_ms |-> 0]]

parse_header(buf) ==
    LET r == read_fields(buf, 0, <<19, 4, 4, 4>>)
    IN  IF ~r.ok
        THEN [err |-> "TruncatedInput", off |-> r.off, header |-> NoHeader]
        ELSE [err |-> "none", off |-> r.off,
              header |-> [format |-> from_utf8_lossy(r.vals[1]),
                          identifier_size |-> from_be_bytes(r.vals[2]),
                          high_word_ms |-> from_be_bytes(r.vals[3]),
                          low_word_ms |-> from_be_bytes(r.vals[4])]]

----------------------------------------------------------------------------
\* Per-tag body decoders.  Each returns [err, off, rec]: off is the offset
\* after the last read that succeeded.

NoRec == [none |-> TRUE]

\* a decoder that takes the text length as bytes.saturating_sub(8): a record
\* that declares fewer than 8 bytes has the empty text
parse_utf8_string_record_saturating(buf, off, bytes, overflow_checks) ==
    LET r1 == read_exact(buf, off, 8)
    IN  IF ~r1.ok
        THEN [err |-> "TruncatedInput", off |-> r1.off, rec |-> NoRec]
        ELSE LET r2 == read_exact(buf, r1.off, IF bytes < 8 THEN 0 ELSE bytes - 8)
             IN  IF ~r2.ok
                 THEN [err |-> "TruncatedInput", off |-> r2.off, rec |-> NoRec]
                 ELSE [err |-> "none", off |-> r2.off,
                       rec |-> [identifier |-> from_be_bytes(r1.bytes),
                                value |-> from_utf8_lossy(r2.bytes)]]

\* overflow_checks: whether the build checks integer overflow (debug) or wraps
\* (release).  With bytes < 8 the subtraction bytes - 8 panics in the first
\* case; in the second it wraps to more than isize::MAX and vec![0; ..] panics
\* with a capacity overflow.  Either way no text is read.
parse_utf8_string_record(buf, off, bytes, overflow_checks) ==
    LET r1 == read_exact(buf, off, 8)
    IN  IF ~r1.ok
        THEN [err |-> "TruncatedInput", off |-> r1.off, rec |-> NoRec]
        ELSE IF bytes < 8
        THEN [err |-> IF overflow_checks THEN "ArithmeticOverflow"
                                         ELSE "CapacityOverflow",
              off |-> r1.off, rec |-> NoRec]
        ELSE LET r2 == read_exact(buf, r1.off, bytes - 8)
             IN  IF ~r2.ok
                 THEN [err |-> "TruncatedInput", off |-> r2.off, rec |-> NoRec]
                 ELSE [err |-> "none", off |-> r2.off,
                       rec |-> [identifier |-> from_be_bytes(r1.bytes),
                                value |-> from_utf8_lossy(r2.bytes)]]

\* a decoder that reads the class name's string id as a u32
parse_load_class_record_short_name(buf, off) ==
    LET r == read_fields(buf, off, <<4, 8, 4, 4>>)
    IN  IF ~r.ok
        THEN [err |-> "TruncatedInput", off |-> r.off, rec |-> NoRec]
        ELSE [err |-> "none", off |-> r.off,
              rec |-> [serial_num |-> from_be_bytes(r.vals[1]),
                       object_id |-> from_be_bytes(r.vals[2]),
                       strace_num |-> from_be_bytes(r.vals[3]),
                       strname_id |-> from_be_bytes(r.vals[4])]]

parse_load_class_record(buf, off) ==
    LET r == read_fields(buf, off, <<4, 8, 4, 8>>)
    IN  IF ~r.ok
        THEN [err |-> "TruncatedInput", off |-> r.off, rec |-> NoRec]
        ELSE [err |-> "none", off |-> r.off,
              rec |-> [serial_num |-> from_be_bytes(r.vals[1]),
                       object_id |-> from_be_bytes(r.vals[2]),
                       strace_num |-> from_be_bytes(r.vals[3]),
                       strname_id |-> from_be_bytes(r.vals[4])]]

parse_unload_class_record(buf, off) ==
    LET r == read_fields(buf, off, <<4>>)
    IN  IF ~r.ok
        THEN [err |-> "TruncatedInput", off |-> r.off, rec |-> NoRec]
        ELSE [err |-> "none", off |-> r.off,
              rec |-> [serial_num |-> from_be_bytes(r.vals[1])]]

parse_stack_frame_record(buf, off) ==
    LET r == read_fields(buf, off, <<8, 8, 8, 8, 4, 4>>)
    IN  IF ~r.ok
        THEN [err |-> "TruncatedInput", off |-> r.off, rec |-> NoRec]
        ELSE [err |-> "none", off |-> r.off,
              rec |-> [frame_id |-> from_be_bytes(r.vals[1]),
                       method_name_id |-> from_be_bytes(r.vals[2]),
                       method_sign_id |-> from_be_bytes(r.vals[3]),
                       source_name_id |-> from_be_bytes(r.vals[4]),
                       class_serial_num |-> from_be_bytes(r.vals[5]),
                       line_num |-> i32_from_be_bytes(r.vals[6])]]

parse_stack_trace_record(buf, off) ==
    Bind(read_fields(buf, off, <<4, 4, 4>>), LAMBDA r :
        IF ~r.ok
        THEN [err |-> "TruncatedInput", off |-> r.off, rec |-> NoRec]
        ELSE Bind(from_be_bytes(r.vals[3]), LAMBDA nframes :
             Bind(read_fields(buf, r.off, [n \in 1..nframes |-> 8]), LAMBDA ids :
                 IF ~ids.ok
                 THEN [err |-> "TruncatedInput", off |-> ids.off, rec |-> NoRec]
                 ELSE [err |-> "none", off |-> ids.off,
                       rec |-> [serial_num |-> from_be_bytes(r.vals[1]),
                                thread_serial_num |-> from_be_bytes(r.vals[2]),
                                nframes |-> nframes,
                                frame_ids |-> [n \in 1..nframes |->
                                                  from_be_bytes(ids.vals[n])]]])))

----------------------------------------------------------------------------
\* Stack trace resolver (the StackTrace arm of parse_record)

\* {:?} of a StackFrameRecord (#[derive(Debug)])
debug_frame(frame) ==
    TxtDbgOpen \o to_string(frame.frame_id)
        \o TxtDbgMethodName \o to_string(frame.method_name_id)
        \o TxtDbgMethodSign \o to_string(frame.method_sign_id)
        \o TxtDbgSourceName \o to_string(frame.source_name_id)
        \o TxtDbgClassSerial \o to_string(frame.class_serial_num)
        \o TxtDbgLineNum \o to_string(frame.line_num)
        \o TxtDbgClose

\* the if / else if chain that prints one resolved frame: [err, lines]
\* a rendering that tests the line_num sentinels before the source name
render_frame_sentinels_first(frame, class_name, method_name, st) ==
    IF frame.line_num = -1
    THEN [err |-> "none",
          lines |-> << TxtTab \o class_name \o TxtDot \o method_name \o TxtUnknown >>]
    ELSE IF frame.line_num = -2
    THEN [err |-> "none",
          lines |-> << TxtTab \o class_name \o TxtDot \o method_name \o TxtCompiled,
                       debug_frame(frame) >>]
    ELSE IF frame.line_num = -3
    THEN [err |-> "none",
          lines |-> << TxtTab \o class_name \o TxtDot \o method_name \o TxtNative,
                       debug_frame(frame) >>]
    ELSE IF frame.source_name_id # 0
    THEN IF frame.source_name_id \notin DOMAIN st
         THEN [err |-> "DanglingReference", lines |-> <<>>]
         ELSE [err |-> "none",
               lines |-> << TxtTab \o class_name \o TxtDot \o method_name
                              \o TxtParenOpen \o st[frame.source_name_id]
                              \o TxtColon \o to_string(frame.line_num)
                              \o TxtClose >>]
    ELSE [err |-> "none", lines |-> << debug_frame(frame) >>]

render_frame(frame, class_name, method_name, st) ==
    IF frame.source_name_id # 0
    THEN IF frame.source_name_id \notin DOMAIN st
         THEN [err |-> "DanglingReference", lines |-> <<>>]
         ELSE [err |-> "none",
               lines |-> << TxtTab \o class_name \o TxtDot \o method_name
                              \o TxtParenOpen \o st[frame.source_name_id]
                              \o TxtColon \o to_string(frame.line_num)
                              \o TxtClose >>]
    ELSE IF frame.line_num = -1
    THEN [err |-> "none",
          lines |-> << TxtTab \o class_name \o TxtDot \o method_name \o TxtUnknown >>]
    ELSE IF frame.line_num = -2
    THEN [err |-> "none",
          lines |-> << TxtTab \o class_name \o TxtDot \o method_name \o TxtCompiled,
                       debug_frame(frame) >>]
    ELSE IF frame.line_num = -3
    THEN [err |-> "none",
          lines |-> << TxtTab \o class_name \o TxtDot \o method_name \o TxtNative,
                       debug_frame(frame) >>]
    ELSE [err |-> "none", lines |-> << debug_frame(frame) >>]

\* a resolver that drops a frame it cannot look up (if let Some(..)) and goes
\* on with the next one
resolve_frame_skipping(frame_id, st, ft, ct) ==
    IF \/ frame_id \notin DOMAIN ft
       \/ ft[frame_id].class_serial_num \notin DOMAIN ct
       \/ ct[ft[frame_id].class_serial_num].strname_id \notin DOMAIN st
       \/ ft[frame_id].method_name_id \notin DOMAIN st
    THEN [err |-> "none", lines |-> <<>>]
    ELSE render_frame(ft[frame_id],
                      replace_slash(st[ct[ft[frame_id].class_serial_num].strname_id]),
                      st[ft[frame_id].method_name_id], st)

\* a resolver that renders a method whose name is not in the string table
\* with an empty name (unwrap_or_default)
resolve_frame_default_method(frame_id, st, ft, ct) ==
    IF \/ frame_id \notin DOMAIN ft
       \/ ft[frame_id].class_serial_num \notin DOMAIN ct
       \/ ct[ft[frame_id].class_serial_num].strname_id \notin DOMAIN st
    THEN [err |-> "DanglingReference", lines |-> <<>>]
    ELSE render_frame(ft[frame_id],
                      replace_slash(st[ct[ft[frame_id].class_serial_num].strname_id]),
                      IF ft[frame_id].method_name_id \in DOMAIN st
                      THEN st[ft[frame_id].method_name_id] ELSE <<>>,
                      st)

\* one iteration of `for frame_id in r.frame_ids`: the four lookups, each
\* unwrapped, then the rendering
resolve_frame(frame_id, st, ft, ct) ==
    IF frame_id \notin DOMAIN ft
    THEN [err |-> "DanglingReference", lines |-> <<>>]
    ELSE LET frame == ft[frame_id]
         IN  IF frame.class_serial_num \notin DOMAIN ct
             THEN [err |-> "DanglingReference", lines |-> <<>>]
             ELSE LET class == ct[frame.class_serial_num]
                  IN  IF class.strname_id \notin DOMAIN st
                      THEN [err |-> "DanglingReference", lines |-> <<>>]
                      ELSE IF frame.method_name_id \notin DOMAIN st
                      THEN [err |-> "DanglingReference", lines |-> <<>>]
                      ELSE render_frame(frame,
                                        replace_slash(st[class.strname_id]),
                                        st[frame.method_name_id], st)

\* the for loop: the lines printed, up to the first lookup that fails
RECURSIVE resolve_frames(_, _, _, _)
resolve_frames(frame_ids, st, ft, ct) ==
    IF frame_ids = <<>>
    THEN [err |-> "none", lines |-> <<>>]
    ELSE LET one == resolve_frame(Head(frame_ids), st, ft, ct)
         IN  IF one.err # "none"
             THEN one
             ELSE LET rest == resolve_frames(Tail(frame_ids), st, ft, ct)
                  IN  [err |-> rest.err, lines |-> one.lines \o rest.lines]

\* a StackTrace arm that collects the block and prints it when all of its
\* frames are resolved
resolve_stack_trace_buffered(r, st, ft, ct) ==
    LET frames == resolve_frames(r.frame_ids, st, ft, ct)
        thread == TxtThread \o to_string(r.thread_serial_num) \o TxtColon
    IN  IF frames.err # "none"
        THEN [err |-> frames.err, lines |-> <<>>]
        ELSE [err |-> "none", lines |-> <<thread>> \o frames.lines \o << <<>> >>]

\* a StackTrace arm without the println!() that closes the block
resolve_stack_trace_unseparated(r, st, ft, ct) ==
    LET frames == resolve_frames(r.frame_ids, st, ft, ct)
        thread == TxtThread \o to_string(r.thread_serial_num) \o TxtColon
    IN  [err |-> frames.err, lines |-> <<thread>> \o frames.lines]

\* the whole StackTrace arm: "Thread n:", the frames, the blank line
resolve_stack_trace(r, st, ft, ct) ==
    LET frames == resolve_frames(r.frame_ids, st, ft, ct)
        thread == TxtThread \o to_string(r.thread_serial_num) \o TxtColon
    IN  IF frames.err # "none"
        THEN [err |-> frames.err, lines |-> <<thread>> \o frames.lines]
        ELSE [err |-> "none", lines |-> <<thread>> \o frames.lines \o << <<>> >>]

----------------------------------------------------------------------------
\* Record envelope decoder and dispatch

NoRecord == [tag |-> 0, time |-> 0, bytes |-> 0]

\* what parse_record returns or leaves behind when it panics
Outcome(e, off, rec, st, ft, ct, lines) ==
    [err |-> e, off |-> off, record |-> rec, string_table |-> st,
     frame_table |-> ft, class_table |-> ct, lines |-> lines]

\* the default arm of parse_record's match
generic_line(tag, bytes) ==
    TxtTag \o TagName(tag) \o TxtOfSize \o to_string(bytes) \o TxtBytes

\* an UnloadClass arm that takes the class out of the table
unload_class_removing(ct, r) ==
    [x \in DOMAIN ct \ {r.serial_num} |-> ct[x]]

\* an UnloadClass arm that empties the class table
unload_class_clearing(ct, r) == EmptyTable

\* the UnloadClass arm: `let _r = parse_unload_class_record(reader);`, the
\* record is dropped and the class table stays as it is
unload_class(ct, r) == ct

\* a default arm that steps over the payload the envelope declares
other_record_skipping_payload(buf, off, rec, st, ft, ct) ==
    LET r == read_exact(buf, off, rec.bytes)
    IN  IF ~r.ok
        THEN Outcome("TruncatedInput", r.off, NoRecord, st, ft, ct, <<>>)
        ELSE Outcome("none", r.off, rec, st, ft, ct,
                     <<generic_line(rec.tag, rec.bytes)>>)

\* the arm `_ =>` of the nine tags without a body decoder: the generic line;
\* no byte after the envelope is read
other_record(buf, off, rec, st, ft, ct) ==
    Outcome("none", off, rec, st, ft, ct, <<generic_line(rec.tag, rec.bytes)>>)

\* the match on the tag, after the envelope has been read
dispatch(buf, off, rec, st, ft, ct, overflow_checks) ==
    CASE rec.tag = Utf8String ->
           Bind(parse_utf8_string_record(buf, off, rec.bytes, overflow_checks), LAMBDA r :
               IF r.err # "none"
               THEN Outcome(r.err, r.off, NoRecord, st, ft, ct, <<>>)
               ELSE Outcome("none", r.off, rec,
                            insert(st, r.rec.identifier, r.rec.value), ft, ct, <<>>))
      [] rec.tag = LoadClass ->
           Bind(parse_load_class_record(buf, off), LAMBDA r :
               IF r.err # "none"
               THEN Outcome(r.err, r.off, NoRecord, st, ft, ct, <<>>)
               ELSE Outcome("none", r.off, rec, st, ft,
                            insert(ct, r.rec.serial_num, r.rec), <<>>))
      [] rec.tag = UnloadClass ->
           Bind(parse_unload_class_record(buf, off), LAMBDA r :
               IF r.err # "none"
               THEN Outcome(r.err, r.off, NoRecord, st, ft, ct, <<>>)
               ELSE Outcome("none", r.off, rec, st, ft, unload_class(ct, r.rec), <<>>))
      [] rec.tag = StackFrame ->
           Bind(parse_stack_frame_record(buf, off), LAMBDA r :
               IF r.err # "none"
               THEN Outcome(r.err, r.off, NoRecord, st, ft, ct, <<>>)
               ELSE Outcome("none", r.off, rec, st,
                            insert(ft, r.rec.frame_id, r.rec), ct, <<>>))
      [] rec.tag = StackTrace ->
           Bind(parse_stack_trace_record(buf, off), LAMBDA r :
               IF r.err # "none"
               THEN Outcome(r.err, r.off, NoRecord, st, ft, ct, <<>>)
               ELSE Bind(resolve_stack_trace(r.rec, st, ft, ct), LAMBDA res :
                        Outcome(res.err, r.off,
                                IF res.err = "none" THEN rec ELSE NoRecord,
                                st, ft, ct, res.lines)))
      [] OTHER -> other_record(buf, off, rec, st, ft, ct)

\* RecordTag::try_from(byte): only the fourteen enumerated values convert
try_from(byte) == byte \in RecordTag

\* a driver that steps over a tag byte that did not convert
unknown_tag_skipped(off, st, ft, ct) == Outcome("none", off, NoRecord, st, ft, ct, <<>>)

\* .unwrap() of a tag byte that did not convert: the panic
unknown_tag(off, st, ft, ct) == Outcome("UnknownTag", off, NoRecord, st, ft, ct, <<>>)

\* a parse_record that takes the end of the file, where no tag byte is left,
\* for the end of the records
parse_record_eof_ends(buf, st, ft, ct, overflow_checks) ==
    Bind(read_exact(buf, 0, 1), LAMBDA r1 :
        IF ~r1.ok
        THEN Outcome("none", r1.off, NoRecord, st, ft, ct, <<>>)
        ELSE IF ~try_from(r1.bytes[1])
        THEN unknown_tag(r1.off, st, ft, ct)
        ELSE Bind(read_fields(buf, r1.off, <<4, 4>>), LAMBDA r2 :
                 IF ~r2.ok
                 THEN Outcome("TruncatedInput", r2.off, NoRecord, st, ft, ct, <<>>)
                 ELSE dispatch(buf, r2.off,
                               [tag |-> r1.bytes[1],
                                time |-> from_be_bytes(r2.vals[1]),
                                bytes |-> from_be_bytes(r2.vals[2])],
                               st, ft, ct, overflow_checks)))

parse_record(buf, st, ft, ct, overflow_checks) ==
    Bind(read_exact(buf, 0, 1), LAMBDA r1 :
        IF ~r1.ok
        THEN Outcome("TruncatedInput", r1.off, NoRecord, st, ft, ct, <<>>)
        ELSE IF ~try_from(r1.bytes[1])
        THEN unknown_tag(r1.off, st, ft, ct)
        ELSE Bind(read_fields(buf, r1.off, <<4, 4>>), LAMBDA r2 :
                 IF ~r2.ok
                 THEN Outcome("TruncatedInput", r2.off, NoRecord, st, ft, ct, <<>>)
                 ELSE dispatch(buf, r2.off,
                               [tag |-> r1.bytes[1],
                                time |-> from_be_bytes(r2.vals[1]),
                                bytes |-> from_be_bytes(r2.vals[2])],
                               st, ft, ct, overflow_checks)))

\* the summary println! after the loop
summary_line(ni, nj, nk, nl, nm) ==
    TxtEntries \o to_string(ni) \o TxtString \o to_string(nj) \o TxtLoad
        \o to_string(nk) \o TxtUnload \o to_string(nl) \o TxtFrame
        \o to_string(nm) \o TxtTrace

----------------------------------------------------------------------------
\* The wire layout the decoders read: how an input file is put together

enc_u32(v) == <<v \div 16777216, (v \div 65536) % 256, (v \div 256) % 256, v % 256>>

enc_u64(v) == <<0, 0, 0, 0>> \o enc_u32(v)

enc_i32(v) ==
    IF v >= 0 THEN enc_u32(v)
    ELSE LET w == (v + 2147483647) + 1
         IN  <<128 + (w \div 16777216), (w \div 65536) % 256, (w \div 256) % 256, w % 256>>

\* UTF-8 of a text whose code points are below U+0800
RECURSIVE enc_utf8(_)
enc_utf8(s) ==
    IF s = <<>> THEN <<>>
    ELSE IF s[1] < 128 THEN <<s[1]>> \o enc_utf8(Tail(s))
    ELSE <<192 + (s[1] \div 64), 128 + (s[1] % 64)>> \o enc_utf8(Tail(s))

FormatBytes == <<74, 65, 86, 65, 32, 80, 82, 79, 70, 73, 76, 69, 32, 49, 46, 48, 46, 49, 0>>  \* "JAVA PROFILE 1.0.1", NUL

HeaderBytes(identifier_size, high_word_ms, low_word_ms) ==
    FormatBytes \o enc_u32(identifier_size) \o enc_u32(high_word_ms)
        \o enc_u32(low_word_ms)

Envelope(tag, time, bytes) == <<tag>> \o enc_u32(time) \o enc_u32(bytes)

\* a Utf8String record whose declared length covers the id and the text
Utf8StringBytes(identifier, text_bytes) ==
    Envelope(Utf8String, 0, 8 + Len(text_bytes)) \o enc_u64(identifier) \o text_bytes

\* a Utf8String record that declares fewer than the 8 bytes of its id
ShortUtf8StringBytes(bytes, identifier) ==
    Envelope(Utf8String, 0, bytes) \o enc_u64(identifier)

LoadClassBytes(bytes, serial_num, object_id, strace_num, strname_id) ==
    Envelope(LoadClass, 0, bytes) \o enc_u32(serial_num) \o enc_u64(object_id)
        \o enc_u32(strace_num) \o enc_u64(strname_id)

UnloadClassBytes(bytes, serial_num) ==
    Envelope(UnloadClass, 0, bytes) \o enc_u32(serial_num)

StackFrameBytes(bytes, frame_id, method_name_id, method_sign_id, source_name_id, class_serial_num, line_num) ==
    Envelope(StackFrame, 0, bytes) \o enc_u64(frame_id) \o enc_u64(method_name_id)
        \o enc_u64(method_sign_id) \o enc_u64(source_name_id)
        \o enc_u32(class_serial_num) \o enc_i32(line_num)

RECURSIVE enc_ids(_)
enc_ids(ids) == IF ids = <<>> THEN <<>> ELSE enc_u64(Head(ids)) \o enc_ids(Tail(ids))

StackTraceBytes(bytes, serial_num, thread_serial_num, frame_ids) ==
    Envelope(StackTrace, 0, bytes) \o enc_u32(serial_num)
        \o enc_u32(thread_serial_num) \o enc_u32(Len(frame_ids)) \o enc_ids(frame_ids)

\* the prefixes of a chunk that end one byte short of the end of a field:
\* files that end inside the record
RECURSIVE Boundaries(_, _)
Boundaries(widths, off) ==
    IF widths = <<>> THEN {}
    ELSE {off + Head(widths) - 1} \cup Boundaries(Tail(widths), off + Head(widths))

Truncations(chunk, widths) == {SubSeq(chunk, 1, n) : n \in Boundaries(widths, 0)}


----------------------------------------------------------------------------
\* Bounds and inputs

\* after the header the file is revealed in at most this many chunks of
\* counted records, and then holds nothing more than what ends the run
MaxChunks == 3

TextMain == <<77, 97, 105, 110>>  \* "Main"
TextSlash == <<97, 47, 98>>  \* "a/b"
TextAccent == <<233>>  \* "é", two bytes in UTF-8

\* the header and the four records of the end-to-end scenario
HeaderA == HeaderBytes(8, 0, 0)
StringA == Utf8StringBytes(1, enc_utf8(TextMain))
ClassA == LoadClassBytes(24, 1, 0, 0, 1)
FrameA == StackFrameBytes(40, 1, 1, 0, 0, 1, -1)
TraceA == StackTraceBytes(20, 1, 1, <<1>>)
RecordsA == StringA \o ClassA \o FrameA \o TraceA

HeapDumpA == Envelope(HeapDump, 0, 5)

\* headers whose three integers differ
HeaderB == HeaderBytes(8, 1, 2)
HeaderC == HeaderBytes(4, 770, 1)

\* the complete header, and every file that ends inside the header
HeaderInputs == {SubSeq(HeaderA, 1, n) : n \in 0..Len(HeaderA)}

\* records that decode and are counted, one at a time, and the four records
\* of the scenario in a row
CountedInputs ==
    {StringA, Utf8StringBytes(2, enc_utf8(TextAccent)), ClassA,
     UnloadClassBytes(4, 1), FrameA, TraceA, RecordsA}

\* envelopes of the nine tags that have no body decoder; the payload that
\* the envelope declares is not part of what the reader consumes
OtherInputs == {Envelope(tag, 0, 5) : tag \in RecordTag \ CountedTags}

\* envelopes whose tag byte is none of the fourteen
UnknownTagInputs == {<<0>>, <<8>>, <<255>>}

\* Utf8String records that declare fewer than 8 bytes
ShortStringInputs == {ShortUtf8StringBytes(7, 1), ShortUtf8StringBytes(0, 1)}

\* files that end inside a record (the empty chunk: at a record boundary)
TruncatedInputs ==
    Truncations(StringA, <<1, 4, 4, 8, 4>>)
        \cup Truncations(ClassA, <<1, 4, 4, 4, 8, 4, 8>>)
        \cup Truncations(UnloadClassBytes(4, 1), <<1, 4, 4, 4>>)
        \cup Truncations(FrameA, <<1, 4, 4, 8, 8, 8, 8, 4, 4>>)
        \cup Truncations(TraceA, <<1, 4, 4, 4, 4, 4, 8>>)

RecordInputs ==
    CountedInputs \cup OtherInputs \cup UnknownTagInputs \cup ShortStringInputs
        \cup TruncatedInputs

\* a string, a class named by it, and a frame of that class and method name
FrameBlock(frame_id, source_name_id, line_num) ==
    Utf8StringBytes(1, enc_utf8(TextSlash)) \o ClassA
        \o StackFrameBytes(40, frame_id, 1, 0, source_name_id, 1, line_num)

\* frame 1, with and without a source file name, for every kind of line
\* number
RenderFrames ==
    {FrameBlock(1, src, line) : src \in {0, 1}, line \in {-1, -2, -3, -4, 7}}

\* records for the rendering of resolved frames
RenderInputs ==
    RenderFrames
        \cup {FrameBlock(2, 0, -3),
              StackTraceBytes(20, 1, 1, <<1>>), StackTraceBytes(28, 2, 2, <<1, 2>>),
              StackTraceBytes(28, 3, 3, <<2, 1>>), HeapDumpA}

\* records that define, redefine and reference ids, some with a declared
\* length that is not the length of their fields
ReferenceInputs ==
    {StringA, Utf8StringBytes(1, enc_utf8(TextSlash)), Utf8StringBytes(2, <<97, 255>>),
     ClassA, LoadClassBytes(25, 1, 0, 0, 2),
     FrameA, StackFrameBytes(40, 2, 2, 0, 0, 1, -2),
     StackFrameBytes(0, 1, 1, 0, 2, 1, 7),
     TraceA, StackTraceBytes(0, 2, 2, <<1, 2>>), StackTraceBytes(28, 3, 3, <<2, 1>>),
     StackTraceBytes(12, 4, 4, <<>>),
     UnloadClassBytes(0, 1),
     StringA \o ClassA, StringA \o ClassA \o FrameA,
     StringA \o ClassA \o TraceA \o FrameA,
     HeapDumpA, <<>>}

\* files of 31 bytes and more: the header alone, and the header with the
\* start of the records behind it
LongHeaderInputs ==
    {HeaderA, HeaderB, HeaderB \o StringA, HeaderC \o HeapDumpA \o <<1, 2, 3, 4, 5>>,
     HeaderC \o <<8>>}

\* an envelope of each of the nine tags without a body decoder, followed by
\* the payload it declares
PayloadInputs ==
    {Envelope(tag, 0, 5) \o <<1, 2, 3, 4, 5>> : tag \in RecordTag \ CountedTags}
        \cup {Envelope(HeapDump, 7, 3) \o <<255, 0, 12>>}

\* records behind the header: the scenario's four, the nine other tags with
\* payload, an unknown tag, the end of the file, and a Utf8String record that
\* declares 7 bytes
StreamInputs ==
    {StringA, ClassA, FrameA, TraceA, <<8>>, <<>>, ShortUtf8StringBytes(7, 1)}
        \cup PayloadInputs

----------------------------------------------------------------------------
\* The stream driver (parse_hprof_file)

Init ==
    /\ pc = "header"
    /\ file = <<>>
    /\ eof = FALSE
    /\ pos = 0
    /\ header = NoHeader
    /\ string_table = EmptyTable
    /\ frame_table = EmptyTable
    /\ class_table = EmptyTable
    /\ i = 0 /\ j = 0 /\ k = 0 /\ l = 0 /\ m = 0
    /\ record = NoRecord
    /\ out = <<>>
    /\ err = "none"
    /\ chunks = 0
    /\ decoded = <<>>

\* the bytes of the file that are revealed and not yet read
unread == SubSeq(file, pos + 1, Len(file))

\* more of the file is revealed only when all that was revealed has been read
ReadAhead(inputs) == IF unread # <<>> THEN {<<>>} ELSE inputs

\* let _header: Header = parse_header(&mut reader);
ParseHeaderStep(chunk) ==
    /\ pc = "header"
    /\ \E r \in {parse_header(chunk)} :
           /\ file' = file \o chunk
           /\ eof' = (r.err = "TruncatedInput")
           /\ pos' = pos + r.off
           /\ header' = r.header
           /\ err' = r.err
           /\ pc' = IF r.err = "none" THEN "loop" ELSE "panicked"
    /\ chunks' = chunks + 1
    /\ UNCHANGED <<string_table, frame_table, class_table, i, j, k, l, m,
                   record, out, decoded>>

\* a copy-and-paste slip: the UnloadClass arm counts a load
tally_unload_as_load(tag) ==
    [i |-> IF tag = Utf8String THEN 1 ELSE 0,
     j |-> IF tag \in {LoadClass, UnloadClass} THEN 1 ELSE 0,
     k |-> 0,
     l |-> IF tag = StackFrame THEN 1 ELSE 0,
     m |-> IF tag = StackTrace THEN 1 ELSE 0]

\* the match on record.tag in the loop: what each arm adds to the counters
tally(tag) ==
    [i |-> IF tag = Utf8String THEN 1 ELSE 0,
     j |-> IF tag = LoadClass THEN 1 ELSE 0,
     k |-> IF tag = UnloadClass THEN 1 ELSE 0,
     l |-> IF tag = StackFrame THEN 1 ELSE 0,
     m |-> IF tag = StackTrace THEN 1 ELSE 0]

\* one iteration of the loop: parse_record, then the match on record.tag
ParseRecordStep(chunk, overflow_checks) ==
    /\ pc = "loop"
    /\ \E r \in {parse_record(unread \o chunk, string_table, frame_table,
                                class_table, overflow_checks)} :
           /\ \/ unread # <<>>
              \/ chunks <= MaxChunks
              \/ r.err # "none"
              \/ r.record.tag \notin CountedTags
           /\ file' = file \o chunk
           /\ eof' = (r.err = "TruncatedInput")
           /\ pos' = pos + r.off
           /\ string_table' = r.string_table
           /\ frame_table' = r.frame_table
           /\ class_table' = r.class_table
           /\ out' = out \o r.lines
           /\ err' = r.err
           /\ IF r.err # "none"
              THEN /\ pc' = "panicked"
                   /\ UNCHANGED <<i, j, k, l, m, record, decoded>>
              ELSE /\ record' = r.record
                   /\ decoded' = Append(decoded, r.record.tag)
                   /\ i' = i + tally(r.record.tag).i
                   /\ j' = j + tally(r.record.tag).j
                   /\ k' = k + tally(r.record.tag).k
                   /\ l' = l + tally(r.record.tag).l
                   /\ m' = m + tally(r.record.tag).m
                   /\ pc' = IF r.record.tag \in CountedTags THEN "loop" ELSE "summary"
    /\ chunks' = IF unread # <<>> THEN chunks ELSE chunks + 1
    /\ UNCHANGED header

\* the println! of the five totals after the loop
PrintSummary ==
    /\ pc = "summary"
    /\ out' = Append(out, summary_line(i, j, k, l, m))
    /\ pc' = "done"
    /\ UNCHANGED <<file, eof, pos, header, string_table, frame_table,
                   class_table, i, j, k, l, m, record, err, chunks, decoded>>

\* the build: with overflow checks, or without them; the two differ only
\* where bytes - 8 wraps
Builds(chunk) == IF chunk \in ShortStringInputs THEN BOOLEAN ELSE {TRUE}

\* the complete state machine: every header and record input
ParseHeader == \E chunk \in HeaderInputs : ParseHeaderStep(chunk)

ParseRecord ==
    \E chunk \in ReadAhead(RecordInputs) :
        \E overflow_checks \in Builds(chunk) : ParseRecordStep(chunk, overflow_checks)

Next == ParseHeader \/ ParseRecord \/ PrintSummary

Spec == Init /\ [][Next]_vars

\* the same program on a complete header and the rendering inputs
ParseHeaderA == ParseHeaderStep(HeaderA)

ParseRecordRender == \E chunk \in ReadAhead(RenderInputs) : ParseRecordStep(chunk, TRUE)

NextRender == ParseHeaderA \/ ParseRecordRender \/ PrintSummary

SpecRender == Init /\ [][NextRender]_vars

\* the same program on a complete header and the reference inputs
ParseRecordReference ==
    \E chunk \in ReadAhead(ReferenceInputs) : ParseRecordStep(chunk, TRUE)

NextReference == ParseHeaderA \/ ParseRecordReference \/ PrintSummary

SpecReference == Init /\ [][NextReference]_vars

\* the same program on whole files: headers of every content, with records
\* behind them, and payloads behind the envelopes
ParseHeaderLong == \E chunk \in LongHeaderInputs : ParseHeaderStep(chunk)

ParseRecordStream ==
    \E chunk \in ReadAhead(StreamInputs) :
        \E overflow_checks \in Builds(chunk) : ParseRecordStep(chunk, overflow_checks)

NextStream == ParseHeaderLong \/ ParseRecordStream \/ PrintSummary

SpecStream == Init /\ [][NextStream]_vars

\* the process runs on one thread and nothing blocks it: a step that can be
\* taken is taken
SpecTermination == SpecStream /\ WF_vars(NextStream)

----------------------------------------------------------------------------
\* Properties

\* the two states of the stream driver
Streaming == pc = "loop"
Terminated == pc \in {"summary", "done"}

\* how many records of a kind parse_record has returned
Count(tag) == Cardinality({n \in 1..Len(decoded) : decoded[n] = tag})

\* C1: a record of one of the five counted kinds leaves the driver Streaming;
\* a record of any other known tag moves it to Terminated; once Terminated
\* nothing more is read or decoded: the file position, the tables, the
\* counters and the last record stay as they are, and the only output still
\* to come is the summary line.
C1_StreamDriver ==
    [][ /\ (Streaming /\ err' = "none") =>
            /\ record'.tag \in {Utf8String, LoadClass, UnloadClass, StackFrame,
                                StackTrace} => Streaming'
            /\ record'.tag \notin {Utf8String, LoadClass, UnloadClass, StackFrame,
                                   StackTrace} => Terminated'
        /\ Terminated =>
            /\ Terminated'
            /\ UNCHANGED <<file, pos, string_table, frame_table, class_table,
                           i, j, k, l, m, record, decoded, err>>
            /\ out' = Append(out, summary_line(i, j, k, l, m))
      ]_vars

\* three counted records were decoded, a HeapDump envelope ended the run
C1_Witness ==
    /\ pc = "done"
    /\ Len(decoded) = 4
    /\ decoded[4] = HeapDump
    /\ \A n \in 1..3 : decoded[n] \in {Utf8String, LoadClass, UnloadClass,
                                       StackFrame, StackTrace}

\* C2: each counter is the number of records of its kind that were decoded;
\* the record that terminates the driver is counted nowhere, and the summary
\* line reports exactly these five numbers.
C2_Totals ==
    /\ i = Count(Utf8String)
    /\ j = Count(LoadClass)
    /\ k = Count(UnloadClass)
    /\ l = Count(StackFrame)
    /\ m = Count(StackTrace)
    /\ Terminated =>
        /\ decoded # <<>>
        /\ decoded[Len(decoded)] \notin {Utf8String, LoadClass, UnloadClass,
                                         StackFrame, StackTrace}
        /\ i + j + k + l + m = Len(decoded) - 1
    /\ pc = "done" =>
        out[Len(out)] = summary_line(Count(Utf8String), Count(LoadClass),
                                     Count(UnloadClass), Count(StackFrame),
                                     Count(StackTrace))

\* the run has ended with the summary after records of four kinds, an
\* UnloadClass among them
C2_Witness ==
    /\ pc = "done"
    /\ i >= 1 /\ j >= 1 /\ k >= 1
    /\ i + j + k + l + m = 3

\* the bytes a step reads from: what was left unread and what it reveals
Window == SubSeq(file', pos + 1, Len(file'))

\* the step decodes a StackTrace record, and this is the record
IsTraceStep ==
    /\ pc = "loop"
    /\ Len(Window) >= 1
    /\ Window[1] = StackTrace
    /\ parse_stack_trace_record(Window, 9).err = "none"

Trace == parse_stack_trace_record(Window, 9).rec

\* an id that the rendering of this frame needs is in none of the tables
FrameDangles(frame_id, st, ft, ct) ==
    \/ frame_id \notin DOMAIN ft
    \/ /\ frame_id \in DOMAIN ft
       /\ \/ ft[frame_id].class_serial_num \notin DOMAIN ct
          \/ /\ ft[frame_id].class_serial_num \in DOMAIN ct
             /\ ct[ft[frame_id].class_serial_num].strname_id \notin DOMAIN st
          \/ ft[frame_id].method_name_id \notin DOMAIN st
          \/ /\ ft[frame_id].source_name_id # 0
             /\ ft[frame_id].source_name_id \notin DOMAIN st

\* C3: when a StackTrace record is processed and a frame id, a class serial or
\* a string id it needs is absent from its table, the run aborts with
\* DanglingReference: no table and no counter changes, the block is not
\* closed by its blank line, and nothing happens after the abort.
C3_DanglingReference ==
    [][ /\ ( /\ IsTraceStep
             /\ \E n \in 1..Len(Trace.frame_ids) :
                    FrameDangles(Trace.frame_ids[n], string_table, frame_table,
                                 class_table) ) =>
            /\ err' = "DanglingReference"
            /\ pc' = "panicked"
            /\ out'[Len(out')] # <<>>
            /\ UNCHANGED <<string_table, frame_table, class_table,
                           i, j, k, l, m, decoded>>
        /\ pc = "panicked" => UNCHANGED vars
      ]_vars

\* the trace <<2, 1>> aborted on frame 2, which is in the frame table with its
\* class and the class's name, but whose method name is not in the string table
C3_Witness ==
    /\ err = "DanglingReference"
    /\ Len(file) >= 37
    /\ SubSeq(file, Len(file) - 36, Len(file)) = StackTraceBytes(28, 3, 3, <<2, 1>>)
    /\ 2 \in DOMAIN frame_table
    /\ frame_table[2].class_serial_num \in DOMAIN class_table
    /\ class_table[frame_table[2].class_serial_num].strname_id \in DOMAIN string_table
    /\ frame_table[2].method_name_id \notin DOMAIN string_table

\* what scenario A is said to print: the block of thread 1, then the summary
ScenarioA_Output ==
    << TxtThread \o to_string(1) \o TxtColon,
       TxtTab \o TextMain \o TxtDot \o TextMain \o TxtUnknown,
       <<>>,
       summary_line(1, 1, 0, 1, 1) >>

\* C4: scenario A: once the stream that is the header and the four records
\* (string 1 "Main", class 1, frame 1, trace 1 of thread 1), with nothing after
\* them, has been read to its end, the run has printed "Thread 1:", the frame
\* line, a blank line and the summary "entries: 1 string 1 load 0 unload
\* 1 frame 1 trace", and has ended normally.
C4_ScenarioA ==
    (file = HeaderA \o RecordsA /\ eof) =>
        /\ pc = "done"
        /\ out = ScenarioA_Output

\* the end of scenario A's stream was reached by the tag read of a fifth
\* iteration: the four records are tallied, the block is printed, and the
\* run has aborted without the summary
C4_Witness ==
    /\ file = HeaderA \o RecordsA
    /\ eof
    /\ pos = Len(file)
    /\ <<i, j, k, l, m>> = <<1, 1, 0, 1, 1>>
    /\ out = SubSeq(ScenarioA_Output, 1, 3)
    /\ pc = "panicked"
    /\ err = "TruncatedInput"

\* the step decodes a StackTrace record all of whose frames resolve
Resolves ==
    /\ IsTraceStep
    /\ \A n \in 1..Len(Trace.frame_ids) :
           ~FrameDangles(Trace.frame_ids[n], string_table, frame_table, class_table)

\* the frames of the trace, in frame_ids order
TraceFrames ==
    [n \in 1..Len(Trace.frame_ids) |-> frame_table[Trace.frame_ids[n]]]

\* the lines the step prints
Block == SubSeq(out', Len(out) + 1, Len(out'))

ThreadLine == TxtThread \o to_string(Trace.thread_serial_num) \o TxtColon

\* "\t<class, dotted>.<method>" of a frame
Qualified(frame) ==
    TxtTab \o replace_slash(string_table[class_table[frame.class_serial_num].strname_id])
        \o TxtDot \o string_table[frame.method_name_id]

\* the rule of the policy that applies to a frame: the first that matches
Rule(frame) ==
    IF frame.source_name_id # 0 THEN 1
    ELSE IF frame.line_num = -1 THEN 2
    ELSE IF frame.line_num = -2 THEN 3
    ELSE IF frame.line_num = -3 THEN 4
    ELSE 5

\* the line each rule renders
Rendered(frame) ==
    CASE Rule(frame) = 1 ->
           Qualified(frame) \o TxtParenOpen \o string_table[frame.source_name_id]
               \o TxtColon \o to_string(frame.line_num) \o TxtClose
      [] Rule(frame) = 2 -> Qualified(frame) \o TxtUnknown
      [] Rule(frame) = 3 -> Qualified(frame) \o TxtCompiled
      [] Rule(frame) = 4 -> Qualified(frame) \o TxtNative
      [] Rule(frame) = 5 -> debug_frame(frame)

\* the lines of a frame: rules 3 and 4 add the raw frame on a line of its own
FrameLines(frame) ==
    IF Rule(frame) \in {3, 4}
    THEN << Rendered(frame), debug_frame(frame) >>
    ELSE << Rendered(frame) >>

\* the lines of the first n frames
RECURSIVE LinesOfFrames(_, _)
LinesOfFrames(frames, n) ==
    IF n = 0 THEN <<>>
    ELSE LinesOfFrames(frames, n - 1) \o FrameLines(frames[n])

\* C5: every resolvable frame is rendered by the first rule that matches, in
\* the order source_name_id # 0, line_num = -1, line_num = -2, line_num = -3,
\* otherwise; a frame with a source name and line_num -1, -2 or -3 is rendered
\* with its source name and line_num, never as Unknown, Compiled or Native.
C5_RulePrecedence ==
    [][ Resolves =>
          \A n \in 1..Len(TraceFrames) :
              LET line == Block[1 + Len(LinesOfFrames(TraceFrames, n - 1)) + 1]
                  frame == TraceFrames[n]
              IN  /\ line = Rendered(frame)
                  /\ frame.source_name_id # 0 =>
                         line \notin { Qualified(frame) \o TxtUnknown,
                                       Qualified(frame) \o TxtCompiled,
                                       Qualified(frame) \o TxtNative }
      ]_vars

\* a trace whose last frame has both a source name and line_num -1 was
\* printed, and the frame's line ends in [a/b:-1]
C5_Witness ==
    /\ pc = "loop"
    /\ record.tag = StackTrace
    /\ 1 \in DOMAIN frame_table
    /\ frame_table[1].source_name_id = 1
    /\ frame_table[1].line_num = -1
    /\ Len(out) >= 3
    /\ out[Len(out) - 1] =
           TxtTab \o <<97, 46, 98>> \o TxtDot \o TextSlash \o TxtParenOpen
               \o TextSlash \o TxtColon \o TxtMinus \o to_string(1) \o TxtClose

RoundTripTexts == {TextMain, TextSlash, TextAccent, <<>>}

RoundTripIds == {1, 2}

\* the window starts with these bytes
StartsWith(bytes) ==
    /\ Len(Window) >= Len(bytes)
    /\ SubSeq(Window, 1, Len(bytes)) = bytes

\* C7: right after a Utf8String record with identifier id and valid UTF-8 text
\* t, whose declared length is that of its fields, has been decoded, looking
\* up id in the string table returns exactly t.
C7_Utf8RoundTrip ==
    [][ \A id \in RoundTripIds : \A t \in RoundTripTexts :
          (pc = "loop" /\ StartsWith(Utf8StringBytes(id, enc_utf8(t)))) =>
              /\ err' = "none"
              /\ id \in DOMAIN string_table'
              /\ string_table'[id] = t
      ]_vars

\* the string "é", two bytes on the wire, was just decoded under id 2 and is
\* one character in the table
C7_Witness ==
    /\ pc = "loop"
    /\ record.tag = Utf8String
    /\ record.bytes = 10
    /\ 2 \in DOMAIN string_table
    /\ string_table[2] = TextAccent

\* the fourteen tag values of the format
EnumeratedTagValues == {1, 2, 3, 4, 5, 6, 7, 10, 11, 12, 13, 14, 28, 44}

\* C8: when the tag byte of an envelope is not one of the fourteen enumerated
\* values, the decode aborts with UnknownTag at that envelope: the record is
\* not skipped, no table and no counter changes, nothing is printed, and
\* after the abort nothing happens: no later record, no summary line.
C8_UnknownTag ==
    [][ /\ ( /\ pc = "loop"
             /\ Len(Window) >= 1
             /\ Window[1] \notin EnumeratedTagValues ) =>
            /\ err' = "UnknownTag"
            /\ pc' = "panicked"
            /\ pos' = pos + 1
            /\ UNCHANGED <<string_table, frame_table, class_table,
                           i, j, k, l, m, record, out, decoded>>
        /\ err = "UnknownTag" => UNCHANGED vars
      ]_vars

\* the tag byte 8 came after decoded records and aborted the run
C8_Witness ==
    /\ err = "UnknownTag"
    /\ pc = "panicked"
    /\ file[pos] = 8
    /\ decoded # <<>>
    /\ \A n \in 1..Len(out) : out[n] # summary_line(i, j, k, l, m)

\* the 32-bit big-endian field of the window that starts after off bytes
Field32(off) ==
    Window[off + 1] * 16777216 + Window[off + 2] * 65536
        + Window[off + 3] * 256 + Window[off + 4]

\* the length of the fields of the record at the start of the window, its
\* envelope included; the window holds its envelope (and, for a StackTrace,
\* the three counts)
FieldsLength ==
    CASE Window[1] = Utf8String -> 9 + Field32(5)
      [] Window[1] = LoadClass -> 9 + 4 + 8 + 4 + 8
      [] Window[1] = UnloadClass -> 9 + 4
      [] Window[1] = StackFrame -> 9 + 8 + 8 + 8 + 8 + 4 + 4
      [] Window[1] = StackTrace -> 9 + 4 + 4 + 4 + 8 * Field32(17)
      [] OTHER -> 9

\* the stream ends inside the record at the start of the window: some field
\* read finds fewer bytes than it needs
EndsInsideRecord ==
    \/ Len(Window) = 0
    \/ /\ Len(Window) >= 1
       /\ Window[1] \in EnumeratedTagValues
       /\ \/ Len(Window) < 9
          \/ /\ Len(Window) >= 9
             /\ Window[1] = Utf8String => Field32(5) >= 8
             /\ \/ Window[1] = StackTrace /\ Len(Window) < 21
                \/ /\ Window[1] = StackTrace => Len(Window) >= 21
                   /\ Len(Window) < FieldsLength

\* C9: whenever a field read finds fewer bytes left in the stream than it
\* needs, in the header, in an envelope or in a record body, the run fails
\* with TruncatedInput and no short or zero-filled value gets anywhere: no
\* header, no record, no table entry, no count, no line printed.  A stream of fewer
\* than 31 bytes fails in the header decoder before any record is decoded,
\* with no stack-trace block and no summary line.
C9_TruncatedInput ==
    [][ /\ (pc = "header" /\ Len(file') < 31) =>
            /\ err' = "TruncatedInput"
            /\ pc' = "panicked"
            /\ header' = NoHeader
            /\ decoded' = <<>>
            /\ out' = <<>>
            /\ <<i', j', k', l', m'>> = <<0, 0, 0, 0, 0>>
        /\ (pc = "loop" /\ EndsInsideRecord) =>
            /\ err' = "TruncatedInput"
            /\ pc' = "panicked"
            /\ UNCHANGED <<header, string_table, frame_table, class_table,
                           i, j, k, l, m, record, out, decoded>>
        /\ err = "TruncatedInput" => UNCHANGED vars
      ]_vars

\* a stream of 30 bytes, one short of the header, has failed in the header
\* decoder
C9_Witness ==
    /\ Len(file) = 30
    /\ err = "TruncatedInput"
    /\ pc = "panicked"
    /\ header = NoHeader
    /\ decoded = <<>>
    /\ out = <<>>

\* the step decodes a record of one of the five kinds that have a body decoder
DecodesBody ==
    /\ pc = "loop"
    /\ err' = "none"
    /\ record'.tag \in {Utf8String, LoadClass, UnloadClass, StackFrame, StackTrace}

\* C10 as stated: after a record of one of the five kinds is decoded, the
\* stream position is 9 + bytes past the start of its envelope, for every
\* value of the declared length.
C10_DeclaredLength ==
    [][ DecodesBody => pos' = pos + 9 + record'.bytes ]_vars

\* C10, amended: after a record of one of the five kinds is decoded, the
\* stream position is past the start of its envelope by 9 plus the length of
\* the fields its decoder reads (Utf8String: the declared length, which is at
\* least 8; LoadClass: 24; UnloadClass: 4; StackFrame: 40; StackTrace: 12 + 8
\* per frame id); that is 9 + bytes exactly when the declared length is the
\* length of the fields.
C10_FieldsLength ==
    [][ DecodesBody =>
          /\ pos' = pos + FieldsLength
          /\ (pos' = pos + 9 + record'.bytes) <=> (record'.bytes = FieldsLength - 9)
          /\ record'.tag = Utf8String => record'.bytes >= 8
      ]_vars

\* a LoadClass record that declares 25 bytes was decoded: its 24 bytes of
\* fields were read and the position is one byte short of 9 + bytes
C10_Witness ==
    /\ pc = "loop"
    /\ record.tag = LoadClass
    /\ record.bytes = 25
    /\ Len(decoded) = 1
    /\ pos = 31 + 9 + 24

\* the 32-bit big-endian integer of the file that starts after off bytes
FileField32(off) ==
    file'[off + 1] * 16777216 + file'[off + 2] * 65536
        + file'[off + 3] * 256 + file'[off + 4]

\* C11: on every input of at least 31 bytes parse_header consumes exactly 31
\* bytes, the 19 bytes of format text and then the identifier size, the
\* timestamp's high word and its low word, 4 bytes each, most significant
\* byte first, and no more: the first envelope is read at offset 31.  It runs
\* once, at the start of the stream.
C11_HeaderDecoder ==
    [][ /\ pc = "header" => (pos = 0 /\ file = <<>>)
        /\ (pc = "header" /\ Len(file') >= 31) =>
            /\ err' = "none"
            /\ pc' = "loop"
            /\ pos' = 31
            /\ header'.format = SubSeq(file', 1, 19)
            /\ header'.identifier_size = FileField32(19)
            /\ header'.high_word_ms = FileField32(23)
            /\ header'.low_word_ms = FileField32(27)
        /\ pc # "header" => (pc' # "header" /\ header' = header)
        /\ (pc = "loop" /\ decoded = <<>>) =>
            /\ pos = 31
            /\ err' = "none" =>
                /\ record'.tag = file'[32]
                /\ record'.time = FileField32(32)
                /\ record'.bytes = FileField32(36)
      ]_vars

\* a file of 45 bytes: the header with id size 4 and timestamp (770, 1), and
\* right behind it a HeapDump envelope, which was decoded from offset 31
C11_Witness ==
    /\ Len(file) = 45
    /\ header = [format |-> FormatBytes, identifier_size |-> 4,
                 high_word_ms |-> 770, low_word_ms |-> 1]
    /\ decoded = <<HeapDump>>
    /\ record = [tag |-> HeapDump, time |-> 0, bytes |-> 5]
    /\ pos = 40

\* the step reads a Utf8String envelope that declares fewer than 8 bytes
DeclaresShortString ==
    /\ pc = "loop"
    /\ Len(Window) >= 9
    /\ Window[1] = Utf8String
    /\ Field32(5) < 8

\* C12: a Utf8String record that declares a payload of fewer than 8 bytes
\* makes the decode fail: nothing is inserted into the string table, nothing
\* is counted, and no text byte is read: the bytes consumed are the envelope
\* and the identifier, never a number of bytes derived from bytes - 8.
\* Nothing happens after the failure.
C12_ShortUtf8String ==
    [][ /\ DeclaresShortString =>
            /\ err' # "none"
            /\ pc' = "panicked"
            /\ pos' <= pos + 9 + 8
            /\ Len(Window) >= 9 + 8 =>
                   /\ err' \in {"ArithmeticOverflow", "CapacityOverflow"}
                   /\ pos' = pos + 9 + 8
            /\ UNCHANGED <<string_table, frame_table, class_table,
                           i, j, k, l, m, record, out, decoded>>
        /\ err \in {"ArithmeticOverflow", "CapacityOverflow"} => UNCHANGED vars
      ]_vars

\* in the build without overflow checks, the record that declares 7 bytes for
\* id 1 has aborted the run after its identifier, and id 1 is not in the table
C12_Witness ==
    /\ err = "CapacityOverflow"
    /\ pc = "panicked"
    /\ Len(file) >= 31 + 17
    /\ pos = Len(file)
    /\ SubSeq(file, pos - 16, pos) = ShortUtf8StringBytes(7, 1)
    /\ 1 \notin DOMAIN string_table

\* the values of the nine tags that have no body decoder
OtherTagValues == {6, 7, 10, 11, 12, 13, 14, 28, 44}

\* the step reads an envelope of one of these nine tags
IsOtherStep ==
    /\ pc = "loop"
    /\ Len(Window) >= 9
    /\ Window[1] \in OtherTagValues

\* C13: decoding a record of one of the nine uncounted tags reads the 9 bytes
\* of the envelope and nothing of the payload, prints "tag: <Tag> of size
\* <bytes> bytes", leaves the three tables and the five counters as they are
\* and terminates the driver; the summary that follows reads no more of the
\* file, and when the record is the first after the header it reports zero
\* for all five kinds, whatever the payload is.
C13_OtherTags ==
    [][ /\ IsOtherStep =>
            /\ err' = "none"
            /\ pos' = pos + 9
            /\ record' = [tag |-> Window[1], time |-> Field32(1), bytes |-> Field32(5)]
            /\ out' = Append(out, TxtTag \o TagName(Window[1]) \o TxtOfSize
                                      \o to_string(Field32(5)) \o TxtBytes)
            /\ pc' = "summary"
            /\ UNCHANGED <<string_table, frame_table, class_table, i, j, k, l, m>>
        /\ pc = "summary" =>
            /\ decoded[Len(decoded)] \in OtherTagValues
            /\ pc' = "done"
            /\ pos' = pos
            /\ Len(decoded) = 1 => out' = Append(out, summary_line(0, 0, 0, 0, 0))
      ]_vars

\* a HeapDump envelope that declares 3 bytes, right behind a 31-byte header:
\* the generic line and the summary of zeroes are the whole output, and the
\* three bytes of payload are still unread
C13_Witness ==
    /\ pc = "done"
    /\ decoded = <<HeapDump>>
    /\ pos = 31 + 9
    /\ unread = <<255, 0, 12>>
    /\ out = << TxtTag \o TagName(HeapDump) \o TxtOfSize \o to_string(3) \o TxtBytes,
                summary_line(0, 0, 0, 0, 0) >>

\* C14: each record kind changes only its own table: a Utf8String record
\* only the string table, a LoadClass record only the class table, a
\* StackFrame record only the frame table; an UnloadClass record, a StackTrace
\* record with its resolution, every other record, the header and the summary
\* leave all three tables as they are.
C14_OwnTableOnly ==
    [][ /\ (pc = "loop" /\ Len(Window) >= 1) =>
            /\ Window[1] = Utf8String => UNCHANGED <<frame_table, class_table>>
            /\ Window[1] = LoadClass => UNCHANGED <<string_table, frame_table>>
            /\ Window[1] = StackFrame => UNCHANGED <<string_table, class_table>>
            /\ Window[1] \notin {Utf8String, LoadClass, StackFrame} =>
                   UNCHANGED <<string_table, frame_table, class_table>>
        /\ (pc # "loop" \/ Len(Window) = 0) =>
            UNCHANGED <<string_table, frame_table, class_table>>
      ]_vars

\* one record of each of the five kinds was decoded, the UnloadClass of class
\* 1 and the StackTrace last: each table holds the one entry of its own kind
C14_Witness ==
    /\ pc = "loop"
    /\ Len(decoded) = 5
    /\ decoded[4] = UnloadClass
    /\ decoded[5] = StackTrace
    /\ DOMAIN string_table = {1}
    /\ DOMAIN class_table = {1}
    /\ DOMAIN frame_table = {1}
    /\ string_table[1] = TextMain
    /\ class_table[1].strname_id = 1
    /\ frame_table[1].class_serial_num = 1

\* C15: the tables only grow: every key that is in the string, frame or class
\* table stays in it, whatever record is decoded next, UnloadClass included.
C15_TablesOnlyGrow ==
    [][ /\ DOMAIN string_table \subseteq DOMAIN string_table'
        /\ DOMAIN frame_table \subseteq DOMAIN frame_table'
        /\ DOMAIN class_table \subseteq DOMAIN class_table'
      ]_vars

\* class 1 was loaded, then an UnloadClass record for serial 1 was decoded and
\* counted: class 1 is still in the class table
C15_Witness ==
    /\ pc = "loop"
    /\ record.tag = UnloadClass
    /\ k = 1
    /\ j >= 1
    /\ 1 \in DOMAIN class_table
    /\ pos = Len(file)
    /\ SubSeq(file, pos - 12, pos) = UnloadClassBytes(0, 1)

\* the step reads a complete record of the given defining kind
Defines(tag) ==
    /\ pc = "loop"
    /\ Len(Window) >= 9
    /\ Window[1] = tag
    /\ tag = Utf8String => Field32(5) >= 8
    /\ Len(Window) >= FieldsLength

\* the table after is the table before with key mapped to value: a key that
\* was in the table is overwritten and the table has the same size, every
\* other key keeps its value
Overwrites(before, after, key, value) ==
    /\ DOMAIN after = DOMAIN before \cup {key}
    /\ after[key] = value
    /\ \A x \in DOMAIN before \ {key} : after[x] = before[x]
    /\ key \in DOMAIN before => Cardinality(DOMAIN after) = Cardinality(DOMAIN before)

\* C16: last writer wins: a Utf8String, StackFrame or LoadClass record is
\* decoded without error whether or not its key is already in the table, and
\* afterwards the table maps the key to this record's value, with the same
\* size if the key was there; a StackTrace processed afterwards is rendered
\* from the values the tables then hold, the later ones.
C16_LastWriterWins ==
    [][ /\ Defines(Utf8String) =>
            /\ err' = "none"
            /\ Overwrites(string_table, string_table', Field32(13),
                          from_utf8_lossy(SubSeq(Window, 18, FieldsLength)))
        /\ Defines(LoadClass) =>
            /\ err' = "none"
            /\ Overwrites(class_table, class_table', Field32(9),
                          [serial_num |-> Field32(9), object_id |-> Field32(17),
                           strace_num |-> Field32(21), strname_id |-> Field32(29)])
        /\ Defines(StackFrame) =>
            /\ err' = "none"
            /\ Overwrites(frame_table, frame_table', Field32(13),
                          [frame_id |-> Field32(13), method_name_id |-> Field32(21),
                           method_sign_id |-> Field32(29),
                           source_name_id |-> Field32(37),
                           class_serial_num |-> Field32(41),
                           line_num |-> i32_from_be_bytes(SubSeq(Window, 46, 49))])
        /\ Resolves =>
            /\ err' = "none"
            /\ Block = <<ThreadLine>> \o LinesOfFrames(TraceFrames, Len(TraceFrames))
                           \o << <<>> >>
      ]_vars

\* string 1 was defined as "Main" and, after class 1 and frame 1, again as
\* "a/b": the table has one string, and the trace of frame 1 printed
\* afterwards names class and method by the later text
C16_Witness ==
    /\ decoded = <<Utf8String, LoadClass, StackFrame, Utf8String, StackTrace>>
    /\ SubSeq(file, 32, 31 + Len(StringA)) = StringA
    /\ i = 2
    /\ DOMAIN string_table = {1}
    /\ string_table[1] = TextSlash
    /\ out = << TxtThread \o to_string(1) \o TxtColon,
                TxtTab \o <<97, 46, 98>> \o TxtDot \o TextSlash \o TxtUnknown,
                <<>> >>

\* the 32-bit big-endian integer of buf that starts after off bytes
Be32(buf, off) ==
    buf[off + 1] * 16777216 + buf[off + 2] * 65536 + buf[off + 3] * 256 + buf[off + 4]

NothingDefined == [strings |-> {}, classes |-> {}, frames |-> {}]

\* the ids that the records of the stream between offsets off and end
\* define: the identifiers of its Utf8String records, the serial numbers of
\* its LoadClass records, the frame ids of its StackFrame records
RECURSIVE DefinedBetween(_, _, _)
DefinedBetween(buf, off, end) ==
    IF off + 9 > end THEN NothingDefined
    ELSE LET tag == buf[off + 1]
             len == CASE tag = Utf8String -> 9 + Be32(buf, off + 5)
                      [] tag = LoadClass -> 9 + 24
                      [] tag = UnloadClass -> 9 + 4
                      [] tag = StackFrame -> 9 + 40
                      [] tag = StackTrace -> 9 + 12 + 8 * Be32(buf, off + 17)
                      [] OTHER -> 9
             rest == DefinedBetween(buf, off + len, end)
         IN  [strings |-> rest.strings \cup
                  (IF tag = Utf8String THEN {Be32(buf, off + 13)} ELSE {}),
              classes |-> rest.classes \cup
                  (IF tag = LoadClass THEN {Be32(buf, off + 9)} ELSE {}),
              frames |-> rest.frames \cup
                  (IF tag = StackFrame THEN {Be32(buf, off + 13)} ELSE {})]

\* what the records before the one now read have defined
DefinedEarlier == DefinedBetween(file, 31, pos)

\* C17: resolution uses the tables as they are when the StackTrace record is
\* processed, and they hold what the records earlier in the stream defined:
\* a StackTrace that references a frame, class or string that no earlier
\* record defined fails with DanglingReference, and nothing is read after it,
\* so that a later definition is never reached; a StackTrace whose references
\* were all defined earlier resolves without error.
C17_DefinedEarlier ==
    [][ /\ IsTraceStep =>
            /\ DOMAIN string_table = DefinedEarlier.strings
            /\ DOMAIN class_table = DefinedEarlier.classes
            /\ DOMAIN frame_table = DefinedEarlier.frames
            /\ (\E n \in 1..Len(Trace.frame_ids) :
                    FrameDangles(Trace.frame_ids[n], string_table, frame_table,
                                 class_table)) =>
                   (err' = "DanglingReference" /\ pc' = "panicked")
            /\ (\A n \in 1..Len(Trace.frame_ids) :
                    ~FrameDangles(Trace.frame_ids[n], string_table, frame_table,
                                  class_table)) =>
                   (err' = "none" /\ pc' = "loop")
        /\ err = "DanglingReference" => UNCHANGED vars
      ]_vars

\* the trace of frame 1 came before the StackFrame record that defines frame
\* 1: the run aborted at the trace, and the definition is still unread
C17_Witness ==
    /\ err = "DanglingReference"
    /\ pc = "panicked"
    /\ unread = FrameA
    /\ 1 \notin DOMAIN frame_table
    /\ 1 \in DOMAIN class_table
    /\ 1 \in DOMAIN string_table

\* the position in frame_ids of the first frame with a dangling reference
FirstDangling ==
    CHOOSE n \in 1..Len(Trace.frame_ids) :
        /\ FrameDangles(Trace.frame_ids[n], string_table, frame_table, class_table)
        /\ \A x \in 1..(n - 1) :
               ~FrameDangles(Trace.frame_ids[x], string_table, frame_table,
                             class_table)

\* the frames before it
FramesBeforeDangling ==
    [n \in 1..(FirstDangling - 1) |-> frame_table[Trace.frame_ids[n]]]

\* C19: when the k-th frame of a StackTrace record is the first with a
\* dangling reference, the run aborts after it has printed the "Thread
\* <thread_serial_num>:" line and the lines of frames 1..k-1 of that record,
\* and nothing more: no line for frame k, no blank line, and no summary line,
\* since nothing happens after the abort.
C19_OutputBeforeAbort ==
    [][ /\ ( /\ IsTraceStep
             /\ \E n \in 1..Len(Trace.frame_ids) :
                    FrameDangles(Trace.frame_ids[n], string_table, frame_table,
                                 class_table) ) =>
            /\ pc' = "panicked"
            /\ out' = out \o <<ThreadLine>>
                          \o LinesOfFrames(FramesBeforeDangling, FirstDangling - 1)
        /\ pc = "panicked" => (pc' = "panicked" /\ out' = out)
      ]_vars

\* the trace <<1, 2>> of thread 2 aborted on its second frame: the Thread
\* line and the line of frame 1 are the whole output
C19_Witness ==
    /\ err = "DanglingReference"
    /\ pc = "panicked"
    /\ 1 \in DOMAIN frame_table
    /\ 2 \notin DOMAIN frame_table
    /\ out = << TxtThread \o to_string(2) \o TxtColon,
                TxtTab \o TextMain \o TxtDot \o TextMain \o TxtUnknown >>

\* the run is over
Stopped == pc \in {"done", "panicked"}

\* a line that reports the totals
IsSummaryLine(line) ==
    /\ Len(line) >= Len(TxtEntries)
    /\ SubSeq(line, 1, Len(TxtEntries)) = TxtEntries

SummaryLines == {n \in 1..Len(out) : IsSummaryLine(out[n])}

\* the fatal decode errors that the error kinds name
NamedErrors == {"TruncatedInput", "UnknownTag", "DanglingReference"}

\* the panics of a Utf8String record that declares fewer than 8 bytes
LengthErrors == {"ArithmeticOverflow", "CapacityOverflow"}

\* the two ways a run ends, with the given errors for the fatal ones; before
\* it ends no summary line is printed
Outcomes(fatal) ==
    /\ pc = "done" =>
        /\ err = "none"
        /\ decoded # <<>>
        /\ decoded[Len(decoded)] \in OtherTagValues
        /\ SummaryLines = {Len(out)}
    /\ pc = "panicked" =>
        /\ err \in fatal
        /\ SummaryLines = {}
    /\ pc \notin {"done", "panicked"} =>
        /\ err = "none"
        /\ SummaryLines = {}
    /\ SummaryLines # {} => \E n \in 1..Len(decoded) : decoded[n] \in OtherTagValues

\* C18 as stated: on every finite stream the decode loop eventually stops, in
\* one of two ways: a record of an uncounted tag was decoded, the summary
\* line is printed and the run ends normally; or truncated input, an unknown
\* tag or a dangling reference aborts the run and no summary line is
\* printed.  The summary line is never printed unless a record of an
\* uncounted tag was decoded.
C18_ThreeFatalErrors ==
    /\ []Outcomes(NamedErrors)
    /\ [][Stopped => UNCHANGED vars]_vars
    /\ <>Stopped

\* C18: on every finite stream the decode loop eventually stops, in one of
\* two ways: a record of an uncounted tag was decoded, the summary line is
\* printed and the run ends normally; or a fatal error aborts the run and no
\* summary line is printed, the fatal errors being truncated input, an
\* unknown tag, a dangling reference and a Utf8String record that declares
\* fewer than 8 bytes.  The summary line is never printed unless a record of
\* an uncounted tag was decoded, and a run that has stopped does nothing
\* more.
C18_Termination ==
    /\ []Outcomes(NamedErrors \cup LengthErrors)
    /\ [][Stopped => UNCHANGED vars]_vars
    /\ <>Stopped

\* the scenario's four records and then a HeapDumpSegment envelope: the run
\* ended normally, with the summary as its last line
C18_Witness ==
    /\ pc = "done"
    /\ decoded = <<Utf8String, LoadClass, StackFrame, StackTrace, HeapDumpSegment>>
    /\ out[Len(out)] = summary_line(1, 1, 0, 1, 1)
    /\ err = "none"

====
